---- MODULE Spec2Model ----
(***************************************************************************)
(* ngx_http_block_legacy: an nginx rewrite-phase handler that answers      *)
(* requests of blocked HTTP versions with 426 Upgrade Required, and the    *)
(* configuration (directives, create_conf, merge_conf) that decides which  *)
(* versions a location blocks.                                             *)
(*                                                                         *)
(* The model follows one configuration chain  main -> server -> location   *)
(* through nginx's configuration load (directives are parsed into the      *)
(* scopes, then merge_loc_conf runs main->server and server->location),    *)
(* and then requests that are served by the location.  Byte strings are    *)
(* sequences of one-character strings; an ngx_str_t is [data, len].        *)
(***************************************************************************)
EXTENDS Integers, Sequences, FiniteSets

\* ------------------------------------------------------------------ bounds

\* Directives one configuration file holds (over all three scopes).
MaxDirectives == 3

\* ------------------------------------------------------- program constants

NGX_CONF_UNSET == -1
NGX_OK == 0
NGX_ERROR == -1
NGX_AGAIN == -2
NGX_DECLINED == -5
NGX_HTTP_UPGRADE_REQUIRED == 426
NGX_HTTP_INTERNAL_SERVER_ERROR == 500
NGX_HTTP_VERSION_9 == 9
NGX_HTTP_VERSION_10 == 1000
NGX_HTTP_VERSION_11 == 1001
NGX_HTTP_VERSION_20 == 2000

\* A pointer is NULL or points to one value.
NULL == << >>
Ptr(x) == << x >>
Deref(p) == p[1]
NGX_CONF_OK == "NGX_CONF_OK"
NGX_LOG_WARN == "warn"

\* The values r->http_version takes.
Versions ==
    {NGX_HTTP_VERSION_9, NGX_HTTP_VERSION_10, NGX_HTTP_VERSION_11,
     NGX_HTTP_VERSION_20}

\* The string literals of the handler.
STR_HTTP09 == << "H", "T", "T", "P", "/", "0", ".", "9" >>
STR_HTTP10 == << "H", "T", "T", "P", "/", "1", ".", "0" >>
STR_HTTP11 == << "H", "T", "T", "P", "/", "1", ".", "1" >>
STR_Upgrade == << "U", "p", "g", "r", "a", "d", "e" >>
STR_Connection == << "C", "o", "n", "n", "e", "c", "t", "i", "o", "n" >>
STR_UpgradeValue == 
    << "H", "T", "T", "P", "/", "2", ".", "0", ",", " ", "H", "T", "T", "P", "/", "1", ".", "1" >>

default_msg ==
    <<
    "<", "!", "D", "O", "C", "T", "Y", "P", "E", " ", "h", "t", "m", "l",
    ">", "\n", "<", "h", "t", "m", "l", ">", "\n", "<", "h", "e", "a", "d",
    ">", "<", "t", "i", "t", "l", "e", ">", "4", "2", "6", " ", "U", "p",
    "g", "r", "a", "d", "e", " ", "R", "e", "q", "u", "i", "r", "e", "d",
    "<", "/", "t", "i", "t", "l", "e", ">", "<", "/", "h", "e", "a", "d",
    ">", "\n", "<", "b", "o", "d", "y", ">", "\n", "<", "c", "e", "n", "t",
    "e", "r", ">", "<", "h", "1", ">", "4", "2", "6", " ", "U", "p", "g",
    "r", "a", "d", "e", " ", "R", "e", "q", "u", "i", "r", "e", "d", "<",
    "/", "h", "1", ">", "<", "/", "c", "e", "n", "t", "e", "r", ">", "\n",
    "<", "h", "r", ">", "\n", "<", "c", "e", "n", "t", "e", "r", ">", "T",
    "h", "i", "s", " ", "s", "e", "r", "v", "e", "r", " ", "r", "e", "q",
    "u", "i", "r", "e", "s", " ", "H", "T", "T", "P", "/", "2", ".", "0",
    " ", "o", "r", " ", "H", "T", "T", "P", "/", "1", ".", "1", "<", "/",
    "c", "e", "n", "t", "e", "r", ">", "\n", "<", "c", "e", "n", "t", "e",
    "r", ">", "Y", "o", "u", "r", " ", "c", "l", "i", "e", "n", "t", " ",
    "u", "s", "e", "d", ":", " " >>

default_suffix ==
    <<
    "<", "/", "c", "e", "n", "t", "e", "r", ">", "\n", "<", "/", "b", "o",
    "d", "y", ">", "\n", "<", "/", "h", "t", "m", "l", ">", "\n" >>

\* The arguments the legacy_http_message directive is given in the modelled
\* configuration files: the empty string and two texts.
MSG_Empty == << >>
MSG_PleaseUpgrade == 
    << "P", "l", "e", "a", "s", "e", " ", "u", "p", "g", "r", "a", "d", "e", "." >>
MSG_Other == << "N", "o", "." >>
MessageArgs == {MSG_Empty, MSG_PleaseUpgrade, MSG_Other}

\* ngx_str_t
ngx_string(bytes) == [data |-> Ptr(bytes), len |-> Len(bytes)]
ngx_null_string == [data |-> NULL, len |-> 0]

ngx_strlen(s) == Len(s)

\* ------------------------------------------------------------ configuration

Scopes == {"main", "server", "location"}
FlagFields == {"enable", "block_http10", "block_http11", "block_http09"}

VARIABLES
    conf,        \* scope -> ngx_http_block_legacy_conf_t
    raw,         \* scope -> the scope as the configuration file set it
    stage,       \* "parse", "merge", "postconf", "run" or "failed"
    nparsed,     \* directives processed so far
    conf_error,  \* what the last directive's handler returned
    cf,          \* the directive being parsed: its scope and cf->args
    pc,          \* the handler's position for the request in progress
    r,           \* the request: http_version, header_only, headers_out
    blocked_version,
    response_body,
    full_msg,    \* the bytes ngx_pnalloc returned for the default body
    b,           \* the output buffer, or NULL
    rc,          \* what the handler returned to the phase engine
    log,         \* the entries written to the error log for the request
    sent,        \* what reached the output chain: the header and the body
    alloc_failed \* the allocations that failed during the request

confvars == <<conf, raw, stage, nparsed, conf_error, cf>>
reqvars == <<pc, r, blocked_version, response_body, full_msg, b, rc, log,
             sent, alloc_failed>>
vars == <<conf, raw, stage, nparsed, conf_error, cf, pc, r, blocked_version,
          response_body, full_msg, b, rc, log, sent, alloc_failed>>

\* ngx_http_block_legacy_create_conf: ngx_pcalloc zeroes custom_message.
ngx_http_block_legacy_create_conf ==
    [enable |-> NGX_CONF_UNSET,
     block_http10 |-> NGX_CONF_UNSET,
     block_http11 |-> NGX_CONF_UNSET,
     block_http09 |-> NGX_CONF_UNSET,
     custom_message |-> ngx_null_string]

\* ngx_conf_merge_value(conf, prev, default)
ngx_conf_merge_value(c, prev, default) ==
    IF c = NGX_CONF_UNSET
    THEN (IF prev = NGX_CONF_UNSET THEN default ELSE prev)
    ELSE c

\* ngx_conf_merge_str_value(conf, prev, default)
ngx_conf_merge_str_value(c, prev, default) ==
    IF c.data = NULL
    THEN (IF prev.data # NULL
          THEN [data |-> prev.data, len |-> prev.len]
          ELSE ngx_string(default))
    ELSE c

\* MergeOverride left out: the merged flags stay as inherited.
MergeOverride_Skipped(c) == c

\* The override of lines 256-261.
MergeOverride(c) ==
    IF c.enable = 0
    THEN [c EXCEPT !.block_http09 = 0, !.block_http10 = 0, !.block_http11 = 0]
    ELSE c

\* ngx_http_block_legacy_merge_conf(cf, parent, child): the child after it.
ngx_http_block_legacy_merge_conf(prev, child) ==
    LET merged ==
            [child EXCEPT
                !.enable = ngx_conf_merge_value(child.enable, prev.enable, 0),
                !.block_http10 =
                    ngx_conf_merge_value(child.block_http10, prev.block_http10, 1),
                !.block_http11 =
                    ngx_conf_merge_value(child.block_http11, prev.block_http11, 0),
                !.block_http09 =
                    ngx_conf_merge_value(child.block_http09, prev.block_http09, 1)]
        forced == MergeOverride(merged)
    IN  [forced EXCEPT
            !.custom_message =
                ngx_conf_merge_str_value(child.custom_message,
                                         prev.custom_message, << >>)]

\* ngx_conf_set_flag_slot, the handler of the four flag directives: the
\* returned text and the scope after it.  on is 1, off is 0.
ngx_conf_set_flag_slot(blcf, field, value) ==
    IF blcf[field] # NGX_CONF_UNSET
    THEN [ret |-> "is duplicate", conf |-> blcf]
    ELSE [ret |-> NGX_CONF_OK, conf |-> [blcf EXCEPT ![field] = value]]

\* ngx_http_block_legacy_custom_message without its duplicate check: the last
\* directive wins.
ngx_http_block_legacy_custom_message_LastWins(blcf, value) ==
    [ret |-> NGX_CONF_OK,
     conf |-> [blcf EXCEPT !.custom_message = ngx_string(value)]]

\* ngx_http_block_legacy_custom_message, the handler of legacy_http_message:
\* value is cf->args->elts[1], whose data is never NULL.
ngx_http_block_legacy_custom_message(blcf, value) ==
    IF blcf.custom_message.data # NULL
    THEN [ret |-> "is duplicate", conf |-> blcf]
    ELSE [ret |-> NGX_CONF_OK,
          conf |-> [blcf EXCEPT !.custom_message = ngx_string(value)]]

\* ngx_http_block_legacy_commands: the directive that sets each flag.
DirectiveName ==
    [enable |-> "block_legacy_http",
     block_http10 |-> "block_http10",
     block_http11 |-> "block_http11",
     block_http09 |-> "block_http09"]

\* What the configuration parser does with a directive handler's result: a
\* text other than NGX_CONF_OK ends the load.
Directive(scope, name, value, res) ==
    /\ stage = "parse"
    /\ nparsed < MaxDirectives
    /\ nparsed' = nparsed + 1
    /\ cf' = Ptr([scope |-> scope, args |-> <<name, value>>])
    /\ conf_error' = res.ret
    /\ conf' = [conf EXCEPT ![scope] = res.conf]
    /\ raw' = conf'
    /\ stage' = IF res.ret = NGX_CONF_OK THEN "parse" ELSE "failed"
    /\ UNCHANGED reqvars

\* block_legacy_http, block_http10, block_http11, block_http09  on | off
FlagDirective ==
    \E scope \in Scopes, field \in FlagFields, value \in {0, 1} :
        Directive(scope, DirectiveName[field], value,
                  ngx_conf_set_flag_slot(conf[scope], field, value))

\* legacy_http_message <text>
MessageDirective ==
    \E scope \in Scopes, value \in MessageArgs :
        Directive(scope, "legacy_http_message", value,
                  ngx_http_block_legacy_custom_message(conf[scope], value))

\* merge_loc_conf of the server's scope with the main scope as its parent.
MergeServer ==
    /\ stage = "parse"
    /\ stage' = "merge"
    /\ cf' = NULL
    /\ conf' = [conf EXCEPT !["server"] =
                   ngx_http_block_legacy_merge_conf(conf["main"], conf["server"])]
    /\ UNCHANGED <<raw, nparsed, conf_error>>
    /\ UNCHANGED reqvars

\* merge_loc_conf of the location's scope with the merged server scope as its
\* parent.
MergeLocation ==
    /\ stage = "merge"
    /\ stage' = "postconf"
    /\ cf' = cf
    /\ conf' = [conf EXCEPT !["location"] =
                   ngx_http_block_legacy_merge_conf(conf["server"],
                                                    conf["location"])]
    /\ UNCHANGED <<raw, nparsed, conf_error>>
    /\ UNCHANGED reqvars

\* ngx_http_block_legacy_init: the handler is pushed to the rewrite phase, or
\* the push fails and the load with it.
ngx_http_block_legacy_init ==
    /\ stage = "postconf"
    /\ \E h \in {NULL, Ptr("handler")} :
          stage' = IF h = NULL THEN "failed" ELSE "run"
    /\ UNCHANGED <<conf, raw, nparsed, conf_error, cf>>
    /\ UNCHANGED reqvars

\* ------------------------------------------------------------------ request

\* A request as the rewrite phase first sees it.
NewRequestRec(version) ==
    [http_version |-> version,
     header_only |-> FALSE,
     addr_text |-> "client",
     request_line |-> "request",
     headers_out |-> [status |-> 0, content_length_n |-> -1, headers |-> << >>]]

NoRequest == NewRequestRec(NGX_HTTP_VERSION_20)

NothingSent == [header |-> NULL, body |-> NULL]

\* The configuration of the location that serves the request.
LocConf == conf["location"]

\* The phase engine calls the handler for a request of the location.
Request ==
    /\ stage = "run"
    /\ pc \in {"idle", "done"}
    /\ \E version \in Versions : r' = NewRequestRec(version)
    /\ pc' = "handler"
    /\ blocked_version' = ngx_null_string
    /\ response_body' = ngx_null_string
    /\ full_msg' = NULL
    /\ b' = NULL
    /\ rc' = NULL
    /\ log' = << >>
    /\ sent' = NothingSent
    /\ alloc_failed' = {}
    /\ UNCHANGED confvars

\* return NGX_DECLINED, at line 108, 136 or 140.
Declined ==
    [declined |-> TRUE, should_block |-> 0, blocked_version |-> ngx_null_string]

\* should_block = 1; ngx_str_set(&blocked_version, label)
Blocking(label) ==
    [declined |-> FALSE, should_block |-> 1,
     blocked_version |-> ngx_string(label)]

\* ShouldBlock with the HTTP/1.0 case reading the flag of HTTP/1.1.
ShouldBlock_WrongFlag(c, version) ==
    IF c.enable = 0
    THEN Declined
    ELSE CASE version = NGX_HTTP_VERSION_9 ->
                IF c.block_http09 # 0 THEN Blocking(STR_HTTP09) ELSE Declined
           [] version = NGX_HTTP_VERSION_10 ->
                IF c.block_http11 # 0 THEN Blocking(STR_HTTP10) ELSE Declined
           [] version = NGX_HTTP_VERSION_11 ->
                IF c.block_http11 # 0 THEN Blocking(STR_HTTP11) ELSE Declined
           [] OTHER -> Declined

\* Lines 98-141: should_block and blocked_version for a configuration and a
\* version; declined is the return of NGX_DECLINED.
ShouldBlock(c, version) ==
    IF c.enable = 0
    THEN Declined
    ELSE CASE version = NGX_HTTP_VERSION_9 ->
                IF c.block_http09 # 0 THEN Blocking(STR_HTTP09) ELSE Declined
           [] version = NGX_HTTP_VERSION_10 ->
                IF c.block_http10 # 0 THEN Blocking(STR_HTTP10) ELSE Declined
           [] version = NGX_HTTP_VERSION_11 ->
                IF c.block_http11 # 0 THEN Blocking(STR_HTTP11) ELSE Declined
           [] OTHER -> Declined

\* The handler returns: nothing more happens to the request.
Return(code) ==
    /\ rc' = Ptr(code)
    /\ pc' = "done"

\* Lines 104-141.
CheckVersion ==
    /\ pc = "handler"
    /\ LET d == ShouldBlock(LocConf, r.http_version)
       IN  /\ blocked_version' = d.blocked_version
           /\ IF d.declined
              THEN Return(NGX_DECLINED)
              ELSE pc' = "log" /\ rc' = rc
    /\ UNCHANGED <<r, response_body, full_msg, b, log, sent, alloc_failed>>
    /\ UNCHANGED confvars

\* Lines 143-148: the entry ngx_log_error writes.
LogEntry ==
    [level |-> NGX_LOG_WARN,
     version |-> Deref(blocked_version.data),
     client |-> r.addr_text,
     request |-> r.request_line]

\* LogBlocked writing nothing.
LogBlocked_Silent ==
    /\ pc = "log"
    /\ pc' = "prepare"
    /\ UNCHANGED <<r, blocked_version, response_body, full_msg, b, rc, log,
                   sent, alloc_failed>>
    /\ UNCHANGED confvars

LogBlocked ==
    /\ pc = "log"
    /\ log' = Append(log, LogEntry)
    /\ pc' = "prepare"
    /\ UNCHANGED <<r, blocked_version, response_body, full_msg, b, rc, sent,
                   alloc_failed>>
    /\ UNCHANGED confvars

\* Lines 150-152.
PrepareResponse ==
    /\ pc = "prepare"
    /\ r' = [r EXCEPT !.headers_out.status = NGX_HTTP_UPGRADE_REQUIRED,
                      !.headers_out.content_length_n = -1]
    /\ pc' = "upgrade_header"
    /\ UNCHANGED <<blocked_version, response_body, full_msg, b, rc, log, sent,
                   alloc_failed>>
    /\ UNCHANGED confvars

\* ngx_list_push and the assignments under "!= NULL": elt is NULL when the
\* list could not grow.
PushHeader(elt, key, value) ==
    IF elt # NULL
    THEN [r EXCEPT !.headers_out.headers =
              Append(@, [hash |-> 1, key |-> key, value |-> value])]
    ELSE r

\* Lines 154-160.
AddUpgradeHeader ==
    /\ pc = "upgrade_header"
    /\ \E upgrade_header \in {NULL, Ptr("elt")} :
          /\ r' = PushHeader(upgrade_header, STR_Upgrade, STR_UpgradeValue)
          /\ alloc_failed' = IF upgrade_header = NULL
                             THEN alloc_failed \cup {"upgrade_header"}
                             ELSE alloc_failed
    /\ pc' = "connection_header"
    /\ UNCHANGED <<blocked_version, response_body, full_msg, b, rc, log, sent>>
    /\ UNCHANGED confvars

\* Lines 162-167.
AddConnectionHeader ==
    /\ pc = "connection_header"
    /\ \E connection_header \in {NULL, Ptr("elt")} :
          /\ r' = PushHeader(connection_header, STR_Connection, STR_Upgrade)
          /\ alloc_failed' = IF connection_header = NULL
                             THEN alloc_failed \cup {"connection_header"}
                             ELSE alloc_failed
    /\ pc' = "send_header"
    /\ UNCHANGED <<blocked_version, response_body, full_msg, b, rc, log, sent>>
    /\ UNCHANGED confvars

\* What ngx_http_send_header may return: NGX_OK, NGX_ERROR, NGX_AGAIN or a
\* special response code.
SendHeaderResults ==
    {NGX_OK, NGX_ERROR, NGX_AGAIN, NGX_HTTP_INTERNAL_SERVER_ERROR}

\* Lines 169-173: the header filters get headers_out as it is now.
SendHeader ==
    /\ pc = "send_header"
    /\ \E res \in SendHeaderResults, header_only \in BOOLEAN :
          /\ r' = [r EXCEPT !.header_only = header_only]
          /\ sent' = [sent EXCEPT !.header = Ptr(r.headers_out)]
          /\ IF res = NGX_ERROR \/ res > NGX_OK \/ header_only
             THEN Return(res)
             ELSE pc' = "body" /\ rc' = rc
    /\ UNCHANGED <<blocked_version, response_body, full_msg, b, log,
                   alloc_failed>>
    /\ UNCHANGED confvars

\* A byte ngx_pnalloc returned and nothing has written yet.
UNINIT == "uninit"

\* ngx_pnalloc(pool, size): size bytes, not initialised.
ngx_pnalloc(size) == [i \in 1..size |-> UNINIT]

\* ngx_cpymem(dst, src, n), dst being mem + p: the memory after the copy (the
\* call returns mem + p + n).
ngx_cpymem(mem, p, src, n) ==
    [i \in 1..Len(mem) |->
        IF p < i /\ i <= p + n THEN src[i - p] ELSE mem[i]]

\* TotalLen without the length of the version label.
TotalLen_NoLabel(version) ==
    ngx_strlen(default_msg) + ngx_strlen(default_suffix)

\* Lines 190-191.
TotalLen(version) ==
    ngx_strlen(default_msg) + version.len + ngx_strlen(default_suffix)

\* Lines 193-205 after the allocation succeeded: full_msg as the three copies
\* leave it.
FullMsg(version) ==
    LET m0 == ngx_pnalloc(TotalLen(version))
        p0 == 0
        m1 == ngx_cpymem(m0, p0, default_msg, ngx_strlen(default_msg))
        p1 == p0 + ngx_strlen(default_msg)
        m2 == ngx_cpymem(m1, p1, Deref(version.data), version.len)
        p2 == p1 + version.len
        m3 == ngx_cpymem(m2, p2, default_suffix, ngx_strlen(default_suffix))
    IN  m3

\* Line 176.
UseCustomMessage(c) == c.custom_message.len > 0

\* Lines 175-206.
PrepareBody ==
    /\ pc = "body"
    /\ IF UseCustomMessage(LocConf)
       THEN /\ response_body' = LocConf.custom_message
            /\ pc' = "buf"
            /\ UNCHANGED <<full_msg, rc, alloc_failed>>
       ELSE \E ok \in BOOLEAN :
               IF ok
               THEN /\ full_msg' = Ptr(FullMsg(blocked_version))
                    /\ response_body' = [data |-> full_msg',
                                         len |-> TotalLen(blocked_version)]
                    /\ pc' = "buf"
                    /\ UNCHANGED <<rc, alloc_failed>>
               ELSE /\ alloc_failed' = alloc_failed \cup {"full_msg"}
                    /\ Return(NGX_HTTP_INTERNAL_SERVER_ERROR)
                    /\ UNCHANGED <<full_msg, response_body>>
    /\ UNCHANGED <<r, blocked_version, b, log, sent>>
    /\ UNCHANGED confvars

\* Lines 208-222: pos and last are offsets into the memory b points into.
CreateBuffer ==
    /\ pc = "buf"
    /\ \E ok \in BOOLEAN :
          IF ok
          THEN /\ b' = Ptr([mem |-> response_body.data,
                            pos |-> 0,
                            last |-> response_body.len,
                            memory |-> 1,
                            last_buf |-> 1])
               /\ r' = [r EXCEPT
                           !.headers_out.content_length_n = response_body.len]
               /\ pc' = "output"
               /\ UNCHANGED <<rc, alloc_failed>>
          ELSE /\ alloc_failed' = alloc_failed \cup {"b"}
               /\ Return(NGX_HTTP_INTERNAL_SERVER_ERROR)
               /\ UNCHANGED <<b, r>>
    /\ UNCHANGED <<blocked_version, response_body, full_msg, log, sent>>
    /\ UNCHANGED confvars

\* The bytes between b->pos and b->last.
BufBytes(buf) == SubSeq(Deref(buf.mem), buf.pos + 1, buf.last)

\* What ngx_http_output_filter may return.
OutputFilterResults == {NGX_OK, NGX_ERROR, NGX_AGAIN}

\* Line 224: the chain of one buffer goes to the body filters.
OutputFilter ==
    /\ pc = "output"
    /\ sent' = [sent EXCEPT !.body = Ptr(BufBytes(Deref(b)))]
    /\ \E res \in OutputFilterResults : Return(res)
    /\ UNCHANGED <<r, blocked_version, response_body, full_msg, b, log,
                   alloc_failed>>
    /\ UNCHANGED confvars

\* ------------------------------------------------------------ specification

Init ==
    /\ conf = [s \in Scopes |-> ngx_http_block_legacy_create_conf]
    /\ raw = conf
    /\ stage = "parse"
    /\ nparsed = 0
    /\ conf_error = NGX_CONF_OK
    /\ cf = NULL
    /\ pc = "idle"
    /\ r = NoRequest
    /\ blocked_version = ngx_null_string
    /\ response_body = ngx_null_string
    /\ full_msg = NULL
    /\ b = NULL
    /\ rc = NULL
    /\ log = << >>
    /\ sent = NothingSent
    /\ alloc_failed = {}

Next ==
    \/ FlagDirective
    \/ MessageDirective
    \/ MergeServer
    \/ MergeLocation
    \/ ngx_http_block_legacy_init
    \/ Request
    \/ CheckVersion
    \/ LogBlocked
    \/ PrepareResponse
    \/ AddUpgradeHeader
    \/ AddConnectionHeader
    \/ SendHeader
    \/ PrepareBody
    \/ CreateBuffer
    \/ OutputFilter

Spec == Init /\ [][Next]_vars

\* -------------------------------------------------------------- properties

\* The scopes merge_loc_conf has run for.
Merged(scope) ==
    \/ scope = "server" /\ stage \in {"merge", "postconf", "run"}
    \/ scope = "location" /\ stage \in {"postconf", "run"}

\* No custom message.
Absent == NULL

\* The resolved Policy a configuration stands for; the custom message is
\* absent when there are no bytes to send.
Policy(c) ==
    [enabled |-> c.enable # 0,
     blockHttp09 |-> c.block_http09 # 0,
     blockHttp10 |-> c.block_http10 # 0,
     blockHttp11 |-> c.block_http11 # 0,
     customMessage |-> IF c.custom_message.len > 0
                       THEN c.custom_message.data
                       ELSE Absent]

\* enabled=false, blockHttp09=true, blockHttp10=true, blockHttp11=false,
\* customMessage=absent, as the parent of a root scope.
DefaultPolicyConf ==
    [enable |-> 0, block_http10 |-> 1, block_http11 |-> 0, block_http09 |-> 1,
     custom_message |-> ngx_null_string]

\* The most specific explicit value of each field of two raw scopes.
Flatten(parentScope, childScope) ==
    [enable |-> IF childScope.enable # NGX_CONF_UNSET
                THEN childScope.enable ELSE parentScope.enable,
     block_http10 |-> IF childScope.block_http10 # NGX_CONF_UNSET
                      THEN childScope.block_http10 ELSE parentScope.block_http10,
     block_http11 |-> IF childScope.block_http11 # NGX_CONF_UNSET
                      THEN childScope.block_http11 ELSE parentScope.block_http11,
     block_http09 |-> IF childScope.block_http09 # NGX_CONF_UNSET
                      THEN childScope.block_http09 ELSE parentScope.block_http09,
     custom_message |-> IF childScope.custom_message.data # NULL
                        THEN childScope.custom_message
                        ELSE parentScope.custom_message]

\* The version-to-flag table of the decision.
TableFlag(c, version) ==
    CASE version = NGX_HTTP_VERSION_9 -> c.block_http09 = 1
      [] version = NGX_HTTP_VERSION_10 -> c.block_http10 = 1
      [] version = NGX_HTTP_VERSION_11 -> c.block_http11 = 1
      [] OTHER -> FALSE

TableLabel(version) ==
    CASE version = NGX_HTTP_VERSION_9 -> STR_HTTP09
      [] version = NGX_HTTP_VERSION_10 -> STR_HTTP10
      [] version = NGX_HTTP_VERSION_11 -> STR_HTTP11
      [] OTHER -> << >>

TableBlocks(c, version) == c.enable = 1 /\ TableFlag(c, version)

\* The handler has decided the request in progress.
Decided == pc \notin {"idle", "handler"}

\* The handler let the request pass to the next handler.
Allowed == pc = "done" /\ rc = Ptr(NGX_DECLINED)

\* The request as the handler found it.
Untouched ==
    /\ r.headers_out = NewRequestRec(r.http_version).headers_out
    /\ sent = NothingSent

NoBlockFlagSet ==
    \A s \in Scopes :
        /\ raw[s].block_http09 = NGX_CONF_UNSET
        /\ raw[s].block_http10 = NGX_CONF_UNSET
        /\ raw[s].block_http11 = NGX_CONF_UNSET

\* How often needle occurs in bytes.
Occurrences(needle, bytes) ==
    Cardinality({i \in 1..(Len(bytes) - Len(needle) + 1) :
                    SubSeq(bytes, i, i + Len(needle) - 1) = needle})

EndsWith(bytes, tail) ==
    /\ Len(bytes) >= Len(tail)
    /\ SubSeq(bytes, Len(bytes) - Len(tail) + 1, Len(bytes)) = tail

STR_YourClientUsed ==
    << "Y", "o", "u", "r", " ", "c", "l", "i", "e", "n", "t", " ", "u", "s", "e", "d", ":", " " >>

\* The reference body for a policy and a version.
ReferenceBody(c, version) ==
    IF Policy(c).customMessage # Absent
    THEN Deref(Policy(c).customMessage)
    ELSE default_msg \o TableLabel(version) \o default_suffix

\* C1: inheritance is associative: with the main scope left as created, the
\* location's policy after the two merges (server under the defaults, location
\* under the server) is the policy one merge gives the flattened pair of raw
\* scopes under the defaults.
C1_InheritanceAssociative ==
    (stage = "run" /\ raw["main"] = ngx_http_block_legacy_create_conf) =>
        Policy(conf["location"]) =
            Policy(ngx_http_block_legacy_merge_conf(
                       DefaultPolicyConf,
                       Flatten(raw["server"], raw["location"])))

\* C2: when no scope of the chain sets a block flag, every merged scope that
\* is enabled blocks HTTP/0.9 and HTTP/1.0 and allows HTTP/1.1 and HTTP/2,
\* whichever scope turned the master flag on.
C2_DefaultsWhenUnset ==
    NoBlockFlagSet =>
        \A s \in {"server", "location"} :
            (Merged(s) /\ conf[s].enable = 1) =>
                /\ conf[s].block_http09 = 1
                /\ conf[s].block_http10 = 1
                /\ conf[s].block_http11 = 0
                /\ ShouldBlock(conf[s], NGX_HTTP_VERSION_9).blocked_version
                       = ngx_string(STR_HTTP09)
                /\ ShouldBlock(conf[s], NGX_HTTP_VERSION_10).blocked_version
                       = ngx_string(STR_HTTP10)
                /\ ShouldBlock(conf[s], NGX_HTTP_VERSION_11).declined
                /\ ShouldBlock(conf[s], NGX_HTTP_VERSION_20).declined

\* C3: the Content-Length the header was sent with is the length of the body
\* that is sent after it.
C3_ContentLengthAtHeader ==
    sent.body # NULL =>
        /\ sent.header # NULL
        /\ Deref(sent.header).content_length_n = Len(Deref(sent.body))

\* C4: a request during which an allocation failed ends with the server
\* error, and nothing of a 426 response was sent for it.
C4_ExhaustionIsServerError ==
    (pc = "done" /\ alloc_failed # {}) =>
        /\ rc = Ptr(NGX_HTTP_INTERNAL_SERVER_ERROR)
        /\ sent = NothingSent

\* C5: a header that is sent has status 426 and holds the Upgrade header and
\* then the Connection header, each once.
C5_HeadersOfRejection ==
    sent.header # NULL =>
        /\ Deref(sent.header).status = NGX_HTTP_UPGRADE_REQUIRED
        /\ Deref(sent.header).headers =
              << [hash |-> 1, key |-> STR_Upgrade, value |-> STR_UpgradeValue],
                 [hash |-> 1, key |-> STR_Connection, value |-> STR_Upgrade] >>

\* C6: the handler decides every request, and by the table: it blocks, with
\* the label of the version, exactly when the location is enabled and the
\* flag of the request's version is on; otherwise it declines, as it does for
\* HTTP/2 and for every version in a location whose merged enable is off.
C6_DecisionFollowsTable ==
    /\ pc = "handler" => ENABLED CheckVersion
    /\ Decided =>
          IF TableBlocks(LocConf, r.http_version)
          THEN /\ ~Allowed
               /\ blocked_version = ngx_string(TableLabel(r.http_version))
          ELSE /\ Allowed
               /\ blocked_version = ngx_null_string

C6_Witness ==
    /\ pc = "done"
    /\ r.http_version = NGX_HTTP_VERSION_11
    /\ blocked_version = ngx_string(STR_HTTP11)
    /\ rc = Ptr(NGX_OK)
    /\ sent.body # NULL

\* C7: a merged scope whose enable is off has its three block flags off.
C7_DisabledHasNoFlags ==
    \A s \in {"server", "location"} :
        (Merged(s) /\ conf[s].enable = 0) =>
            /\ conf[s].block_http09 = 0
            /\ conf[s].block_http10 = 0
            /\ conf[s].block_http11 = 0

C7_Witness ==
    /\ stage = "run"
    /\ raw["server"].enable = 1
    /\ raw["server"].block_http11 = 1
    /\ raw["location"].enable = 0
    /\ raw["location"].block_http11 = NGX_CONF_UNSET
    /\ conf["server"].block_http11 = 1
    /\ conf["location"].block_http11 = 0
    /\ conf["location"].block_http10 = 0

\* A step that parses legacy_http_message in the scope.
ParsesMessage(scope) ==
    /\ nparsed' = nparsed + 1
    /\ Deref(cf').scope = scope
    /\ Deref(cf').args[1] = "legacy_http_message"

\* C8: legacy_http_message in a scope that has its message set fails as a
\* duplicate and leaves the scope as it was; in a scope that has none it
\* succeeds and sets the message to its argument, whatever the enclosing
\* scopes hold.
C8_DuplicateMessageRejected ==
    [][\A scope \in Scopes :
          ParsesMessage(scope) =>
              IF raw[scope].custom_message.data # NULL
              THEN /\ conf_error' = "is duplicate"
                   /\ stage' = "failed"
                   /\ conf' = conf
              ELSE /\ conf_error' = NGX_CONF_OK
                   /\ stage' = "parse"
                   /\ conf'[scope].custom_message =
                         ngx_string(Deref(cf').args[2])
                   /\ \A other \in Scopes \ {scope} : conf'[other] = conf[other]
      ]_vars

C8_Witness ==
    /\ stage = "failed"
    /\ conf_error = "is duplicate"
    /\ cf # NULL
    /\ Deref(cf).args[1] = "legacy_http_message"
    /\ Deref(cf).scope = "location"
    /\ Deref(cf).args[2] = MSG_PleaseUpgrade
    /\ conf["location"].custom_message = ngx_string(MSG_Empty)
    /\ conf["server"].custom_message.data # NULL

\* C9: the body that is sent is the reference body of the location's policy
\* and the request's version, the declared length is its number of bytes, the
\* preamble ends in "Your client used: ", and the default body of an HTTP/1.0
\* request holds "HTTP/1.0" once.
C9_BodyIsReference ==
    sent.body # NULL =>
        /\ Deref(sent.body) = ReferenceBody(LocConf, r.http_version)
        /\ response_body.len = Len(Deref(sent.body))
        /\ r.headers_out.content_length_n = Len(Deref(sent.body))
        /\ EndsWith(default_msg, STR_YourClientUsed)
        /\ (Policy(LocConf).customMessage = Absent
              /\ r.http_version = NGX_HTTP_VERSION_10) =>
                 Occurrences(STR_HTTP10, Deref(sent.body)) = 1

C9_Witness ==
    /\ sent.body # NULL
    /\ r.http_version = NGX_HTTP_VERSION_10
    /\ Policy(LocConf).customMessage = Absent
    /\ raw["location"].custom_message = ngx_string(MSG_Empty)
    /\ raw["server"].custom_message = ngx_string(MSG_PleaseUpgrade)
    /\ EndsWith(Deref(sent.body), default_suffix)

\* C10: a blocked request has one warning entry with the label of its version
\* in the log, written before the status, the headers or the body of the
\* response are touched; an allowed request has none and is left as it came.
C10_OneWarningPerBlock ==
    /\ Len(log) <= 1
    /\ ~Untouched => Len(log) = 1
    /\ (Decided /\ pc # "log" /\ TableBlocks(LocConf, r.http_version)) =>
          /\ Len(log) = 1
          /\ log[1].level = NGX_LOG_WARN
          /\ log[1].version = TableLabel(r.http_version)
    /\ (Decided /\ ~TableBlocks(LocConf, r.http_version)) =>
          /\ log = << >>
          /\ Untouched

C10_Witness ==
    /\ pc = "done"
    /\ TableBlocks(LocConf, r.http_version)
    /\ Len(log) = 1
    /\ log[1].version = STR_HTTP09
    /\ sent.body # NULL

====
